---- MODULE Spec2Model ----
(***************************************************************************)
(* Model of components/graphics_engine/src/gl_wrap/shader.rs: the Shader   *)
(* wrapper (new, check_compilation, uniform_mat4f, id, bind, unbind, Drop) *)
(* run against a handle-tracking model of the native graphics API.         *)
(*                                                                         *)
(* The native side is the state the wrapper's calls act on: the program    *)
(* and shader objects by handle, the active program, and the record of     *)
(* the native calls and log lines made by Shader::new or uniform_mat4f,    *)
(* kept until the next operation.  The Rust side is the stack of           *)
(* Shader::new frames (it recurses through check_compilation), the         *)
(* Option<Shader> values the caller holds, and how the thread ended if it  *)
(* did.                                                                    *)
(***************************************************************************)
EXTENDS Integers, Sequences, FiniteSets, TLC

VARIABLES
    status,     \* "idle" | "running" (inside Shader::new) | "panicked" (unwinding) |
                \* "exited" (unwound) | "crashed" | "stack_overflow"
    stack,      \* frames of Shader::new, innermost last
    slots,      \* the Option<Shader> values returned to the caller, in call order
    active,     \* native: the program made current by UseProgram (0: none)
    programs,   \* native: program objects by handle
    shaders,    \* native: shader-stage objects by handle
    nextName,   \* native: the next handle to issue (programs and shaders share names)
    verdicts,   \* native: what the compiler made of each constant source so far
    calls       \* native calls and log lines of the Shader::new in progress, or of the
                \* last operation when that was Shader::new or uniform_mat4f

vars == <<status, stack, slots, active, programs, shaders, nextName, verdicts, calls>>

---------------------------------------------------------------------------
(* Bounds *)

\* Number of Shader::new calls the caller makes.
MaxCalls == 2

\* Depth of Shader::new frames the thread's stack can hold.  The stack ends
\* in the deepest of them, in one of its callees, or on the call that would
\* need one frame more.
StackLimit == 3

---------------------------------------------------------------------------
(* Inputs *)

\* Uniform names as byte strings; byte 0 is NUL.
NameMVP == <<1>>
NameView == <<2>>
NameWithNul == <<1, 0, 2>>
UniformNames == {NameMVP, NameView, NameWithNul}

\* Matrices, by identity; a uniform never uploaded holds NoMat.
Mats == {"M1"}
NoMat == "unset"

\* Info logs the native API may report for a failed compile, as byte strings
\* without the terminating NUL: readable text, no log at all, a byte that is
\* not UTF-8.
LogText == <<69, 114>>
LogEmpty == <<>>
LogNotUtf8 == <<255>>
InfoLogs == {LogText, LogEmpty, LogNotUtf8}

\* What reading a C string through the dangling pointer of an empty Vec may
\* produce: some readable bytes, some bytes that are not UTF-8, or a fault.
DanglingReads == {"text", "not_utf8", "fault"}

\* The caller's source pair (frag, vert), as passed to Shader::new.
UserSources == [frag |-> "user_frag", vert |-> "user_vert"]

---------------------------------------------------------------------------
(* Constants and pure helpers of shader.rs *)

\* const SHADER_ERR_SRC_FRAG / SHADER_ERR_SRC_VERT: the fallback pair.
SHADER_ERR_SRC_FRAG == "SHADER_ERR_SRC_FRAG"
SHADER_ERR_SRC_VERT == "SHADER_ERR_SRC_VERT"

\* Variant: the fallback pair passed in (vert, frag) order.
ErrSourcesSwapped == [frag |-> SHADER_ERR_SRC_VERT, vert |-> SHADER_ERR_SRC_FRAG]

\* The (frag, vert) arguments of the recursive call in check_compilation.
ErrSources == [frag |-> SHADER_ERR_SRC_FRAG, vert |-> SHADER_ERR_SRC_VERT]

\* The sources that are constants of shader.rs: every level of the recursion
\* hands the native compiler the same two texts.
ErrSrcs == {SHADER_ERR_SRC_FRAG, SHADER_ERR_SRC_VERT}

\* The uniforms a source declares, in declaration order.  The fallback vertex
\* source declares iMVP only, and so does the caller's vertex source here.
DeclaredUniforms(src) ==
    CASE src = SHADER_ERR_SRC_VERT -> <<NameMVP>>
      [] src = "user_vert"         -> <<NameMVP>>
      [] OTHER                     -> <<>>

\* Option<Shader>
None == [some |-> FALSE, program |-> 0]
Some(p) == [some |-> TRUE, program |-> p]

\* Shader::new's success value: Some(Shader { program }).
NewResult(p) == Some(p)

\* Shader::id
Id(shader) == shader.program

\* CString::new(name): Err(NulError) when the bytes hold a NUL.
HasNul(bytes) == \E i \in 1..Len(bytes) : bytes[i] = 0
CStringNew(bytes) ==
    IF HasNul(bytes) THEN [ok |-> FALSE, bytes |-> <<>>]
                     ELSE [ok |-> TRUE, bytes |-> bytes]

\* CString::to_str: Ok only for UTF-8.  Over the logs modelled here every
\* byte is either ASCII or 255, which no UTF-8 text contains.
ValidUtf8(bytes) == \A i \in 1..Len(bytes) : bytes[i] < 128

\* INFO_LOG_LENGTH: the log's length with its terminating NUL, 0 for no log.
InfoLogLength(log) == IF log = <<>> THEN 0 ELSE Len(log) + 1

\* What CStr::from_ptr(error_log.as_ptr()) reads for a failed shader: with
\* max_len = 0 the Vec is empty and its pointer dangles, so the read is
\* undefined; otherwise the log decides.
LogReads(log) ==
    IF InfoLogLength(log) = 0 THEN DanglingReads
    ELSE IF ValidUtf8(log) THEN {"text"} ELSE {"not_utf8"}

\* How check_compilation gets past the log of a failed shader.  The read of
\* the C string happens in any case and may fault.  to_str().unwrap() is an
\* argument of log::error!, evaluated only when the Error level is enabled
\* (a logger is installed): only then do bytes that are not UTF-8 panic.
CheckOutcomes(log, enabled) ==
    {o \in {"fault"} : "fault" \in LogReads(log)} \cup
    {o \in {"panic"} : enabled /\ "not_utf8" \in LogReads(log)} \cup
    {o \in {"logged"} : "text" \in LogReads(log) \/
                        (~enabled /\ "not_utf8" \in LogReads(log))}

\* One native call or log line of the record.
Ev(c, a, b, s, n) == [call |-> c, a |-> a, b |-> b, s |-> s, name |-> n]

---------------------------------------------------------------------------
(* The native API, as far as the wrapper uses it *)

NewProgram == [attached |-> <<>>, linked |-> FALSE, dels |-> 0,
               names |-> <<>>, uni |-> <<>>]
NewShader(kind) == [kind |-> kind, src |-> "", compiled |-> FALSE, dels |-> 0]

RECURSIVE UniformsOf(_)
UniformsOf(attached) ==
    IF attached = <<>> THEN <<>>
    ELSE DeclaredUniforms(shaders[Head(attached)].src) \o UniformsOf(Tail(attached))

\* glLinkProgram on program object prog.  Whether stages that compiled also
\* link is the native linker's decision (links); stages that did not compile
\* never link.  A linked program has its stages' uniforms, none uploaded
\* yet; a program that failed to link has none.
Linked(prog, links) ==
    LET ok == links /\
              \A i \in 1..Len(prog.attached) : shaders[prog.attached[i]].compiled
        ns == UniformsOf(prog.attached)
    IN [prog EXCEPT !.linked = ok,
                    !.names = IF ok THEN ns ELSE <<>>,
                    !.uni = IF ok THEN [i \in 1..Len(ns) |-> NoMat] ELSE <<>>]

\* What is left of a program object once the native side has freed it: the
\* count of deletes of its handle.
Freed(prog) == [NewProgram EXCEPT !.dels = prog.dels]

\* glUseProgram: 0 clears the active program; a linked program becomes the
\* active one; a program that is not linked is refused (GL_INVALID_OPERATION)
\* and the active program stays.
GlUseProgram(p) ==
    IF p = 0 THEN 0
    ELSE IF p \in DOMAIN programs /\ programs[p].linked THEN p
    ELSE active

\* The program objects once a has become the active program: a program that
\* was deleted while active is freed when it stops being the active one.
ReleasedBy(a) ==
    IF active # 0 /\ active # a /\ programs[active].dels > 0
    THEN [programs EXCEPT ![active] = Freed(@)]
    ELSE programs

\* glDeleteProgram on program object prog with handle p: one more delete of
\* that handle.  The object is freed at once, unless it is the active
\* program: then it is only flagged for deletion.
Deleted(prog, p) ==
    IF p = active THEN [prog EXCEPT !.dels = @ + 1]
    ELSE Freed([prog EXCEPT !.dels = @ + 1])

GlDeleteProgram(p) == [programs EXCEPT ![p] = Deleted(@, p)]

\* What glCompileShader may make of src.  The caller's sources stand for
\* whatever pair a call is given, so either outcome; a constant source the
\* compiler has seen before gets the verdict it got then.
CompileOutcomes(src) ==
    IF src \in ErrSrcs /\ verdicts[src] # "unknown"
    THEN {verdicts[src] = "compiles"}
    ELSE BOOLEAN

\* glDeleteShader: one more delete of that handle.
GlDeleteShader(s) == [shaders EXCEPT ![s].dels = @ + 1]

\* glGetUniformLocation: the uniform's index in a linked program, else -1.
GlGetUniformLocation(p, bytes) ==
    IF p \in DOMAIN programs /\ programs[p].linked /\
       \E i \in 1..Len(programs[p].names) : programs[p].names[i] = bytes
    THEN (CHOOSE i \in 1..Len(programs[p].names) : programs[p].names[i] = bytes) - 1
    ELSE -1

\* glUniformMatrix4fv: writes the uniform at loc of the ACTIVE program; no
\* effect without an active program, for location -1, or for a location the
\* active program does not have.
GlUniformMatrix4fv(loc, val) ==
    IF active # 0 /\ loc >= 0 /\ loc < Len(programs[active].uni)
    THEN [programs EXCEPT ![active].uni[loc + 1] = val]
    ELSE programs

---------------------------------------------------------------------------
(* State *)

Frame(frag, vert) ==
    [pc |-> "create", frag |-> frag, vert |-> vert, program |-> 0,
     vert_shader |-> 0, frag_shader |-> 0, stage |-> "vert", val |-> None]

Top == stack[Len(stack)]
SetTop(f) == [stack EXCEPT ![Len(stack)] = f]
At(pc) == status = "running" /\ stack # <<>> /\ Top.pc = pc

\* The stage object check_compilation is looking at.
StageShader(f) == IF f.stage = "vert" THEN f.vert_shader ELSE f.frag_shader

\* Where Shader::new goes on when check_compilation returned None.
AfterCheck(f) ==
    IF f.stage = "vert" THEN [f EXCEPT !.stage = "frag", !.pc = "compile"]
    ELSE [f EXCEPT !.pc = "attach"]

\* The innermost Shader::new is the deepest frame the stack can hold.
Deepest == Len(stack) >= StackLimit

\* The callees of Shader::new and check_compilation, any of which may be the
\* one that runs out of stack: which of them reaches deepest is the build's
\* matter (native library, logger, optimisation level).
Callees == {"CreateProgram", "CreateShader", "ShaderSource", "CompileShader",
            "GetShaderiv", "GetShaderInfoLog", "log_error", "LinkProgram"}

\* The record's last entry when the stack ran out inside callee.
Overflowed(callee) == Ev("stack_overflow", 0, 0, callee, <<>>)

\* The Shader values the caller holds.
Live == {i \in 1..Len(slots) : slots[i].some /\ slots[i].alive}

Init ==
    /\ status = "idle"
    /\ stack = <<>>
    /\ slots = <<>>
    /\ active = 0
    /\ programs = <<>>
    /\ shaders = <<>>
    /\ nextName = 1
    /\ verdicts = [src \in ErrSrcs |-> "unknown"]
    /\ calls = <<>>

---------------------------------------------------------------------------
(* Shader::new.  Straight-line runs of native calls are one step each; the *)
(* steps are cut where the native API decides (CompileShader), where the   *)
(* code branches (check_compilation) and where it recurses.                *)

\* The caller calls Shader::new(frag, vert).
NewCall ==
    /\ status = "idle"
    /\ Len(slots) < MaxCalls
    /\ status' = "running"
    /\ stack' = <<Frame(UserSources.frag, UserSources.vert)>>
    /\ calls' = <<>>
    /\ UNCHANGED <<slots, active, programs, shaders, nextName, verdicts>>

\* program = gl::CreateProgram(); vert_shader = gl::CreateShader(VERTEX_SHADER);
\* frag_shader = gl::CreateShader(FRAGMENT_SHADER); gl::ShaderSource on both.
CreateObjects ==
    /\ At("create")
    /\ LET program == nextName
           vert_shader == nextName + 1
           frag_shader == nextName + 2
       IN /\ programs' = programs @@ (program :> NewProgram)
          /\ shaders' = shaders @@
                (vert_shader :> [NewShader("VERTEX_SHADER") EXCEPT !.src = Top.vert]) @@
                (frag_shader :> [NewShader("FRAGMENT_SHADER") EXCEPT !.src = Top.frag])
          /\ nextName' = nextName + 3
          /\ stack' = SetTop([Top EXCEPT !.program = program,
                                         !.vert_shader = vert_shader,
                                         !.frag_shader = frag_shader,
                                         !.stage = "vert", !.pc = "compile"])
          /\ calls' = calls \o
                <<Ev("CreateProgram", 0, program, "", <<>>),
                  Ev("CreateShader", 0, vert_shader, "VERTEX_SHADER", <<>>),
                  Ev("CreateShader", 0, frag_shader, "FRAGMENT_SHADER", <<>>),
                  Ev("ShaderSource", vert_shader, 0, Top.vert, <<>>),
                  Ev("ShaderSource", frag_shader, 0, Top.frag, <<>>)>>
    /\ UNCHANGED <<status, slots, active, verdicts>>

\* gl::CompileShader(vert_shader) / gl::CompileShader(frag_shader): the native
\* compiler decides the outcome.
CompileShader ==
    /\ At("compile")
    /\ LET src == shaders[StageShader(Top)].src IN
       \E ok \in CompileOutcomes(src) :
          /\ shaders' = [shaders EXCEPT ![StageShader(Top)].compiled = ok]
          /\ verdicts' = IF src \in ErrSrcs
                         THEN [verdicts EXCEPT ![src] = IF ok THEN "compiles" ELSE "fails"]
                         ELSE verdicts
    /\ stack' = SetTop([Top EXCEPT !.pc = "check"])
    /\ calls' = Append(calls, Ev("CompileShader", StageShader(Top), 0, "", <<>>))
    /\ UNCHANGED <<status, slots, active, programs, nextName>>

\* check_compilation(name, shader) when COMPILE_STATUS is non-zero: None.
CheckCompiled ==
    /\ At("check")
    /\ shaders[StageShader(Top)].compiled
    /\ stack' = SetTop(AfterCheck(Top))
    /\ calls' = Append(calls, Ev("GetShaderiv", StageShader(Top), 1, "COMPILE_STATUS", <<>>))
    /\ UNCHANGED <<status, slots, active, programs, shaders, nextName, verdicts>>

\* The native calls check_compilation makes to fetch a failed shader's log
\* (the record keeps the calls, not the log they report).
FetchLog(s) ==
    <<Ev("GetShaderiv", s, 0, "COMPILE_STATUS", <<>>),
      Ev("GetShaderiv", s, 0, "INFO_LOG_LENGTH", <<>>),
      Ev("GetShaderInfoLog", s, 0, "", <<>>)>>

\* check_compilation on a failed shader when log::error! goes through: the
\* error is logged under the stage's name (log_error records the statement
\* being reached; emitting the line is the installed logger's matter), the
\* shader is deleted, and the fallback is next.
CheckFailedLogged(log, enabled) ==
    /\ At("check")
    /\ ~shaders[StageShader(Top)].compiled
    /\ "logged" \in CheckOutcomes(log, enabled)
    /\ shaders' = GlDeleteShader(StageShader(Top))
    /\ stack' = SetTop([Top EXCEPT !.pc = "call_fallback"])
    /\ calls' = calls \o FetchLog(StageShader(Top)) \o
                <<Ev("log_error", StageShader(Top), 0, Top.stage, <<>>),
                  Ev("DeleteShader", StageShader(Top), 0, "", <<>>)>>
    /\ UNCHANGED <<status, slots, active, programs, nextName, verdicts>>

\* check_compilation on a failed shader whose log is not UTF-8, with the
\* Error level enabled: to_str().unwrap() panics.
CheckFailedPanics(log, enabled) ==
    /\ At("check")
    /\ ~shaders[StageShader(Top)].compiled
    /\ "panic" \in CheckOutcomes(log, enabled)
    /\ status' = "panicked"
    /\ calls' = calls \o FetchLog(StageShader(Top))
    /\ UNCHANGED <<stack, slots, active, programs, shaders, nextName, verdicts>>

\* check_compilation on a failed shader with no log: CStr::from_ptr reads
\* through the dangling pointer of the empty Vec and may fault.
CheckFailedFaults(log, enabled) ==
    /\ At("check")
    /\ ~shaders[StageShader(Top)].compiled
    /\ "fault" \in CheckOutcomes(log, enabled)
    /\ status' = "crashed"
    /\ calls' = calls \o FetchLog(StageShader(Top))
    /\ UNCHANGED <<stack, slots, active, programs, shaders, nextName, verdicts>>

\* return Shader::new(SHADER_ERR_SRC_FRAG, SHADER_ERR_SRC_VERT), with room on
\* the stack for the new frame.
CallFallback ==
    /\ At("call_fallback")
    /\ ~Deepest
    /\ stack' = Append(SetTop([Top EXCEPT !.pc = "await"]),
                       Frame(ErrSources.frag, ErrSources.vert))
    /\ UNCHANGED <<status, slots, active, programs, shaders, nextName, verdicts, calls>>

\* The stack runs out inside callee, called by the deepest Shader::new or by
\* its check_compilation: the process aborts there and nothing is unwound.
\* The calls made before callee have returned and had their effect; callee
\* has not.  When the deepest frame got as far as the recursive call, the
\* level that call begins has no room for its first callee, gl::CreateProgram.
\* (gl::LinkProgram is reached by the deepest frame only on a stack of fewer
\* than three frames: a third frame compiles the constant sources that
\* failed in the second, and fails as it did.)
StackExhausted(callee) ==
    /\ status = "running" /\ stack # <<>> /\ Deepest
    /\ \/ /\ callee = "CreateProgram" /\ Top.pc \in {"create", "call_fallback"}
          /\ calls' = Append(calls, Overflowed(callee))
          /\ UNCHANGED <<stack, programs, shaders, nextName>>
       \/ /\ callee = "CreateShader" /\ Top.pc = "create"
          /\ programs' = programs @@ (nextName :> NewProgram)
          /\ nextName' = nextName + 1
          /\ stack' = SetTop([Top EXCEPT !.program = nextName])
          /\ calls' = calls \o <<Ev("CreateProgram", 0, nextName, "", <<>>),
                                  Overflowed(callee)>>
          /\ UNCHANGED shaders
       \/ /\ callee = "ShaderSource" /\ Top.pc = "create"
          /\ programs' = programs @@ (nextName :> NewProgram)
          /\ shaders' = shaders @@ (nextName + 1 :> NewShader("VERTEX_SHADER")) @@
                                   (nextName + 2 :> NewShader("FRAGMENT_SHADER"))
          /\ nextName' = nextName + 3
          /\ stack' = SetTop([Top EXCEPT !.program = nextName,
                                         !.vert_shader = nextName + 1,
                                         !.frag_shader = nextName + 2])
          /\ calls' = calls \o
                <<Ev("CreateProgram", 0, nextName, "", <<>>),
                  Ev("CreateShader", 0, nextName + 1, "VERTEX_SHADER", <<>>),
                  Ev("CreateShader", 0, nextName + 2, "FRAGMENT_SHADER", <<>>),
                  Overflowed(callee)>>
       \/ /\ callee = "CompileShader" /\ Top.pc = "compile"
          /\ calls' = Append(calls, Overflowed(callee))
          /\ UNCHANGED <<stack, programs, shaders, nextName>>
       \/ /\ callee = "GetShaderiv" /\ Top.pc = "check"
          /\ calls' = Append(calls, Overflowed(callee))
          /\ UNCHANGED <<stack, programs, shaders, nextName>>
       \/ /\ callee = "GetShaderInfoLog" /\ Top.pc = "check"
          /\ ~shaders[StageShader(Top)].compiled
          /\ calls' = calls \o SubSeq(FetchLog(StageShader(Top)), 1, 2) \o
                      <<Overflowed(callee)>>
          /\ UNCHANGED <<stack, programs, shaders, nextName>>
       \/ /\ callee = "log_error" /\ Top.pc = "check"
          /\ ~shaders[StageShader(Top)].compiled
          /\ calls' = calls \o FetchLog(StageShader(Top)) \o <<Overflowed(callee)>>
          /\ UNCHANGED <<stack, programs, shaders, nextName>>
       \/ /\ callee = "LinkProgram" /\ Top.pc = "attach"
          /\ programs' = [programs EXCEPT ![Top.program].attached =
                                              @ \o <<Top.vert_shader, Top.frag_shader>>]
          /\ calls' = calls \o
                <<Ev("AttachShader", Top.program, Top.vert_shader, "", <<>>),
                  Ev("AttachShader", Top.program, Top.frag_shader, "", <<>>),
                  Overflowed(callee)>>
          /\ UNCHANGED <<stack, shaders, nextName>>
    /\ status' = "stack_overflow"
    /\ UNCHANGED <<slots, active, verdicts>>

\* A frame of Shader::new returns result: to the caller, who keeps the value,
\* or through check_compilation to the frame below, whose `if let Some(val)`
\* takes it.
Deliver(result) ==
    LET rest == SubSeq(stack, 1, Len(stack) - 1) IN
    IF rest = <<>>
    THEN /\ stack' = <<>>
         /\ slots' = Append(slots, [some |-> result.some, program |-> result.program,
                                    alive |-> result.some])
         /\ status' = "idle"
    ELSE /\ stack' = [rest EXCEPT ![Len(rest)] =
                        IF result.some
                        THEN [rest[Len(rest)] EXCEPT !.val = result, !.pc = "got_fallback"]
                        ELSE AfterCheck(rest[Len(rest)])]
         /\ UNCHANGED <<slots, status>>

\* Variant: the program is linked before the fragment stage is attached.
LinkAndReturnEarlyLink(links) ==
    /\ At("attach")
    /\ shaders' = [s \in DOMAIN shaders |->
                     IF s \in {Top.vert_shader, Top.frag_shader}
                     THEN [shaders[s] EXCEPT !.dels = @ + 1] ELSE shaders[s]]
    /\ programs' = [programs EXCEPT ![Top.program] =
                      [Linked([@ EXCEPT !.attached = @ \o <<Top.vert_shader>>], links)
                          EXCEPT !.attached = @ \o <<Top.frag_shader>>]]
    /\ calls' = calls \o
          <<Ev("AttachShader", Top.program, Top.vert_shader, "", <<>>),
            Ev("LinkProgram", Top.program, 0, "", <<>>),
            Ev("AttachShader", Top.program, Top.frag_shader, "", <<>>),
            Ev("DeleteShader", Top.vert_shader, 0, "", <<>>),
            Ev("DeleteShader", Top.frag_shader, 0, "", <<>>)>>
    /\ Deliver(NewResult(Top.program))
    /\ UNCHANGED <<active, nextName, verdicts>>

\* gl::AttachShader(program, vert_shader); gl::AttachShader(program,
\* frag_shader); gl::LinkProgram(program); gl::DeleteShader on both;
\* Some(Shader { program }).  LINK_STATUS is never tested: the program is
\* returned whether or not it linked.
LinkAndReturn(links) ==
    /\ At("attach")
    /\ shaders' = [s \in DOMAIN shaders |->
                     IF s \in {Top.vert_shader, Top.frag_shader}
                     THEN [shaders[s] EXCEPT !.dels = @ + 1] ELSE shaders[s]]
    /\ programs' = [programs EXCEPT ![Top.program] =
                      Linked([@ EXCEPT !.attached = @ \o <<Top.vert_shader, Top.frag_shader>>],
                             links)]
    /\ calls' = calls \o
          <<Ev("AttachShader", Top.program, Top.vert_shader, "", <<>>),
            Ev("AttachShader", Top.program, Top.frag_shader, "", <<>>),
            Ev("LinkProgram", Top.program, 0, "", <<>>),
            Ev("DeleteShader", Top.vert_shader, 0, "", <<>>),
            Ev("DeleteShader", Top.frag_shader, 0, "", <<>>)>>
    /\ Deliver(NewResult(Top.program))
    /\ UNCHANGED <<active, nextName, verdicts>>

\* Variant: the handle deleted is the fallback's, not the failed call's.
ReturnFallbackDeletesVal ==
    /\ At("got_fallback")
    /\ programs' = GlDeleteProgram(Top.val.program)
    /\ calls' = Append(calls, Ev("DeleteProgram", Top.val.program, 0, "", <<>>))
    /\ Deliver(Some(Top.val.program))
    /\ UNCHANGED <<active, shaders, nextName, verdicts>>

\* Inside `if let Some(val) = Shader::check_compilation(..)`:
\* gl::DeleteProgram(program); return Some(val).
ReturnFallback ==
    /\ At("got_fallback")
    /\ programs' = GlDeleteProgram(Top.program)
    /\ calls' = Append(calls, Ev("DeleteProgram", Top.program, 0, "", <<>>))
    /\ Deliver(Some(Top.val.program))
    /\ UNCHANGED <<active, shaders, nextName, verdicts>>

-----
(* The operations on a Shader the caller holds *)

\* Variant: a uniform that is not found is warned about and not uploaded.
UniformMat4fSkipsMiss(i, name, val) ==
    /\ status = "idle"
    /\ i \in Live
    /\ CStringNew(name).ok
    /\ LET uni_loc == GlGetUniformLocation(slots[i].program, CStringNew(name).bytes) IN
          /\ programs' = IF uni_loc < 0 THEN programs ELSE GlUniformMatrix4fv(uni_loc, val)
          /\ calls' = <<Ev("GetUniformLocation", slots[i].program, uni_loc, "", name)>> \o
                      (IF uni_loc < 0 THEN <<Ev("log_warn", 0, 0, "", name)>>
                       ELSE <<Ev("UniformMatrix4fv", uni_loc, 1, val, <<>>)>>)
    /\ UNCHANGED <<status, stack, slots, active, shaders, nextName, verdicts>>

\* uniform_mat4f(name, val) with a name CString::new accepts.
UniformMat4f(i, name, val) ==
    /\ status = "idle"
    /\ i \in Live
    /\ CStringNew(name).ok
    /\ LET uni_loc == GlGetUniformLocation(slots[i].program, CStringNew(name).bytes) IN
          /\ programs' = GlUniformMatrix4fv(uni_loc, val)
          /\ calls' = <<Ev("GetUniformLocation", slots[i].program, uni_loc, "", name)>> \o
                      (IF uni_loc < 0 THEN <<Ev("log_warn", 0, 0, "", name)>> ELSE <<>>) \o
                      <<Ev("UniformMatrix4fv", uni_loc, 1, val, <<>>)>>
    /\ UNCHANGED <<status, stack, slots, active, shaders, nextName, verdicts>>

\* uniform_mat4f(name, val) with a NUL inside name: CString::new(..).unwrap()
\* panics.
UniformMat4fPanics(i, name) ==
    /\ status = "idle"
    /\ i \in Live
    /\ ~CStringNew(name).ok
    /\ status' = "panicked"
    /\ calls' = <<>>
    /\ UNCHANGED <<stack, slots, active, programs, shaders, nextName, verdicts>>

\* bind(): gl::UseProgram(self.program)
Bind(i) ==
    /\ status = "idle"
    /\ i \in Live
    /\ active' = GlUseProgram(slots[i].program)
    /\ programs' = ReleasedBy(GlUseProgram(slots[i].program))
    /\ calls' = <<>>
    /\ UNCHANGED <<status, stack, slots, shaders, nextName, verdicts>>

\* unbind(): gl::UseProgram(0)
Unbind(i) ==
    /\ status = "idle"
    /\ i \in Live
    /\ active' = GlUseProgram(0)
    /\ programs' = ReleasedBy(GlUseProgram(0))
    /\ calls' = <<>>
    /\ UNCHANGED <<status, stack, slots, shaders, nextName, verdicts>>

\* Variant: dropping a Shader releases nothing.
DropLeaks(i) ==
    /\ status = "idle"
    /\ i \in Live
    /\ slots' = [slots EXCEPT ![i].alive = FALSE]
    /\ calls' = <<>>
    /\ UNCHANGED <<status, stack, active, programs, shaders, nextName, verdicts>>

\* Drop for Shader: gl::DeleteProgram(self.program)
Drop(i) ==
    /\ status = "idle"
    /\ i \in Live
    /\ programs' = GlDeleteProgram(slots[i].program)
    /\ slots' = [slots EXCEPT ![i].alive = FALSE]
    /\ calls' = <<>>
    /\ UNCHANGED <<status, stack, active, shaders, nextName, verdicts>>

\* A panic unwinds the caller's stack: Drop runs for every Shader the caller
\* still holds, and the thread ends.  (A Shader::new that panicked holds its
\* handles as plain integers; unwinding deletes none of them.)
Unwind ==
    /\ status = "panicked"
    /\ programs' = [p \in DOMAIN programs |->
                      IF \E i \in Live : slots[i].program = p
                      THEN Deleted(programs[p], p) ELSE programs[p]]
    /\ slots' = [i \in 1..Len(slots) |-> [slots[i] EXCEPT !.alive = FALSE]]
    /\ status' = "exited"
    /\ UNCHANGED <<stack, active, shaders, nextName, calls, verdicts>>

---------------------------------------------------------------------------
(* Specifications *)

\* The steps of Shader::new that neither panic nor fault, against a native
\* API that reports one of logs as the info log of a failed compile.
NewStep(logs) ==
    \/ CreateObjects
    \/ CompileShader
    \/ CheckCompiled
    \/ \E log \in logs, enabled \in BOOLEAN : CheckFailedLogged(log, enabled)
    \/ CallFallback
    \/ \E callee \in Callees : StackExhausted(callee)
    \/ \E links \in BOOLEAN : LinkAndReturn(links)
    \/ ReturnFallback

Next ==
    \/ NewCall
    \/ NewStep(InfoLogs)
    \/ \E log \in InfoLogs, enabled \in BOOLEAN : CheckFailedPanics(log, enabled)
    \/ \E log \in InfoLogs, enabled \in BOOLEAN : CheckFailedFaults(log, enabled)
    \/ Unwind
    \/ \E i \in 1..MaxCalls, name \in UniformNames, val \in Mats : UniformMat4f(i, name, val)
    \/ \E i \in 1..MaxCalls, name \in UniformNames : UniformMat4fPanics(i, name)
    \/ \E i \in 1..MaxCalls : Bind(i)
    \/ \E i \in 1..MaxCalls : Unbind(i)
    \/ \E i \in 1..MaxCalls : Drop(i)

Spec == Init /\ [][Next]_vars

\* The same program when every info log is readable text and no uniform name
\* holds a NUL, so that nothing panics or faults.  Shader::new runs
\* synchronously on the calling thread: once called, its next step is taken.
NextText ==
    \/ NewCall
    \/ NewStep({LogText})
    \/ \E i \in 1..MaxCalls, name \in UniformNames, val \in Mats : UniformMat4f(i, name, val)
    \/ \E i \in 1..MaxCalls : Bind(i)
    \/ \E i \in 1..MaxCalls : Unbind(i)
    \/ \E i \in 1..MaxCalls : Drop(i)

TermSpec == Init /\ [][NextText]_vars /\ WF_vars(NewStep({LogText}))

---------------------------------------------------------------------------
(* Reading the record of native calls *)

\* Shader::new has returned to the caller and nothing was called since.
NewReturned == status = "idle" /\ calls # <<>> /\ calls[1].call = "CreateProgram"

\* The value that call returned.
Returned == slots[Len(slots)]

\* Places in the record where check_compilation found a stage not compiled.
Failures == {i \in 1..Len(calls) : calls[i].call = "GetShaderiv" /\
                                   calls[i].s = "COMPILE_STATUS" /\ calls[i].b = 0}

\* The name check_compilation is given for a stage object of that kind.
StageName(kind) == IF kind = "VERTEX_SHADER" THEN "vert" ELSE "frag"

\* Program p has exactly a vertex stage of src.vert and a fragment stage of
\* src.frag attached.
BuiltFrom(p, src) ==
    /\ p \in DOMAIN programs
    /\ Len(programs[p].attached) = 2
    /\ shaders[programs[p].attached[1]].kind = "VERTEX_SHADER"
    /\ shaders[programs[p].attached[1]].src = src.vert
    /\ shaders[programs[p].attached[2]].kind = "FRAGMENT_SHADER"
    /\ shaders[programs[p].attached[2]].src = src.frag

\* The Shader values frames of Shader::new hold as `val`.
Held == {k \in 1..Len(stack) : stack[k].val.some}

\* uniform_mat4f was the last operation and asked for a uniform not found.
UniformMissed == calls # <<>> /\ calls[1].call = "GetUniformLocation" /\ calls[1].b < 0

---------------------------------------------------------------------------
(* Claims *)

\* C1: whenever Shader::new returns it returns Some(shader), never None; when
\* a stage of the sources given to a call fails to compile, an error is
\* logged under that stage's name, and the shader returned to the caller is
\* the one built from the fallback pair, not from the caller's sources.
C1_SomeAndFallbackOnFailure ==
    NewReturned =>
        /\ Returned.some
        /\ \A i \in Failures :
              \E j \in (i + 1)..Len(calls) :
                  /\ calls[j].call = "log_error"
                  /\ calls[j].a = calls[i].a
                  /\ calls[j].s = StageName(shaders[calls[i].a].kind)
        /\ Failures # {} =>
              /\ BuiltFrom(Id(Returned), [frag |-> SHADER_ERR_SRC_FRAG,
                                          vert |-> SHADER_ERR_SRC_VERT])
              /\ ~BuiltFrom(Id(Returned), UserSources)

\* C1 witness: a call returned after one of the caller's stages failed.
C1_Witness == NewReturned /\ Failures # {} /\ Returned.some

\* C2: every call to Shader::new eventually returns a shader, whatever the
\* native compiler reports, the fallback sources failing included.
C2_NewTerminates == (status = "running") ~> (status = "idle")

\* With room for three frames, the stack runs out only in a run where the
\* native compiler rejected one of the constant fallback sources: the frame
\* it runs out in is a repeat of a fallback that already failed.
OverflowOnlyAfterFallbackFailed ==
    (status = "stack_overflow" \/ (status = "running" /\ Deepest)) =>
        \E src \in ErrSrcs : verdicts[src] = "fails"

\* C3: every program handle CreateProgram issued is passed to DeleteProgram
\* never twice, and exactly once by the time every Shader the caller was
\* returned has been destroyed (by the caller, or by unwinding), the handle
\* of a call that fell back included.
C3_ProgramsReleasedOnce ==
    /\ \A p \in DOMAIN programs : programs[p].dels <= 1
    /\ (status \in {"idle", "exited"} /\ Live = {}) =>
          \A p \in DOMAIN programs : programs[p].dels = 1

\* C4: the id of every Shader value in existence (held by the caller, or held
\* as `val` inside Shader::new) is a handle CreateProgram issued that has not
\* been passed to DeleteProgram; the handle a failed call deletes is not the
\* one it returns; no two Shaders hold the same handle.
C4_LiveHandlesValid ==
    /\ \A i \in Live :
          /\ Id(slots[i]) \in DOMAIN programs
          /\ programs[Id(slots[i])].dels = 0
    /\ \A k \in Held :
          /\ Id(stack[k].val) \in DOMAIN programs
          /\ programs[Id(stack[k].val)].dels = 0
          /\ Id(stack[k].val) # stack[k].program
          /\ \A i \in Live : Id(slots[i]) # Id(stack[k].val)
          /\ \A m \in Held : m # k => Id(stack[m].val) # Id(stack[k].val)
    /\ \A i, j \in Live : i # j => Id(slots[i]) # Id(slots[j])

\* C4 witness: the caller holds two Shaders, the second a fallback whose
\* failed call has just deleted its own program.
C4_Witness ==
    /\ NewReturned
    /\ Cardinality(Live) = 2
    /\ \E k \in 1..Len(calls) :
          /\ calls[k].call = "DeleteProgram"
          /\ programs[calls[k].a].dels = 1
          /\ calls[k].a # Id(Returned)

\* C5: when both stages compile, Shader::new returns the Shader whose id() is
\* the non-zero handle CreateProgram gave that call, having attached the
\* vertex stage, then the fragment stage, then linked the program, and never
\* having passed that handle to DeleteProgram.
C5_SuccessPath ==
    (NewReturned /\ Failures = {}) =>
        LET p == calls[1].b
            vs == calls[2].b
            fs == calls[3].b
        IN /\ Returned.some
           /\ Id(Returned) = p
           /\ p # 0
           /\ calls[2].s = "VERTEX_SHADER" /\ calls[3].s = "FRAGMENT_SHADER"
           /\ \E i, j, k \in 1..Len(calls) :
                 /\ i < j /\ j < k
                 /\ calls[i] = Ev("AttachShader", p, vs, "", <<>>)
                 /\ calls[j] = Ev("AttachShader", p, fs, "", <<>>)
                 /\ calls[k] = Ev("LinkProgram", p, 0, "", <<>>)
           /\ \A i \in 1..Len(calls) : calls[i].call # "DeleteProgram"
           /\ programs[p].dels = 0
           /\ BuiltFrom(p, UserSources)

\* C5 witness: a call returned with both stages compiled.
C5_Witness == NewReturned /\ Failures = {} /\ Id(Returned) = calls[1].b

\* C6: when GetUniformLocation gives uniform_mat4f a negative location, a
\* warning is logged, UniformMatrix4fv is still called once, with -1, the
\* call returns normally and the Shader still holds the same program.
C6_MissWarnsAndUploads ==
    UniformMissed =>
        /\ status = "idle"
        /\ Len(calls) = 3
        /\ calls[2].call = "log_warn" /\ calls[2].name = calls[1].name
        /\ calls[3].call = "UniformMatrix4fv" /\ calls[3].a = -1
        /\ \E i \in Live : Id(slots[i]) = calls[1].a

\* C6 witness: uniform_mat4f has just missed on a linked fallback Shader,
\* asked for a uniform the fallback does not declare.
C6_Witness ==
    /\ UniformMissed
    /\ calls[1].name = NameView
    /\ programs[calls[1].a].linked
    /\ BuiltFrom(calls[1].a, ErrSources)

\* C7: no operation of Shader panics, faults or otherwise aborts, whatever
\* the uniform name and whatever info log the native API reports.
C7_NeverAborts == status \in {"idle", "running"}

\* C8: when Shader::new returns, every stage object CreateShader gave out
\* during the call has been passed to DeleteShader exactly once.
C8_StagesDeletedOnce ==
    NewReturned =>
        \A i \in 1..Len(calls) :
            calls[i].call = "CreateShader" => shaders[calls[i].b].dels = 1

\* C9: uniform_mat4f on a Shader changes no uniform of another program, and
\* sets the uniform of the Shader's own program when the name is found,
\* whichever program is active.
C9_UploadOnlyToOwnProgram ==
    [][\A i \in 1..MaxCalls, name \in UniformNames, val \in Mats :
          UniformMat4f(i, name, val) =>
              LET own == Id(slots[i])
                  loc == GlGetUniformLocation(own, name)
              IN /\ \A p \in DOMAIN programs : p # own => programs'[p] = programs[p]
                 /\ loc >= 0 => programs'[own].uni[loc + 1] = val]_vars

\* C10 as stated: the active program is always 0 or the id of a Shader that
\* is still alive.
C10_ActiveIsZeroOrLive == active = 0 \/ \E i \in Live : Id(slots[i]) = active

\* C10 amended: the active program is always 0 or the id of a Shader that
\* Shader::new returned; that Shader is still alive and its handle not
\* deleted, or it was destroyed and its handle deleted once, the active
\* program still naming it.
C10_ActiveIsZeroOrReturned ==
    active = 0 \/
    \E i \in 1..Len(slots) :
        /\ slots[i].some
        /\ Id(slots[i]) = active
        /\ programs[active].dels = (IF slots[i].alive THEN 0 ELSE 1)

\* C10 witness: a Shader was destroyed while it was the active program.
C10_Witness ==
    /\ status = "idle"
    /\ active # 0
    /\ \E i \in 1..Len(slots) : Id(slots[i]) = active /\ ~slots[i].alive
    /\ Live # {}

====
